---------------------------- MODULE Spec2Model ----------------------------
(***************************************************************************)
(* Model of orderbook-td/src/orderbook.rs: a price-indexed order book with *)
(* one level array and one presence bitset per side, a cached best price   *)
(* per side and a cached total quantity per side.                          *)
(*                                                                         *)
(* The source fixes MAX_PRICE = 200_001, BLOCK_SIZE = 64 and uses u64      *)
(* quantities and u64 bitset blocks: a block is one machine word and holds *)
(* one bit per tick, and a quantity is a word of the same width.  The      *)
(* model keeps the same layout at a reduced scale: the tick domain and the *)
(* width of the word are the definitions MAX_PRICE and BLOCK_SIZE below,   *)
(* and QBits, the width of the quantity integers, is BLOCK_SIZE as in the  *)
(* source.  As in the source the domain is not a multiple of the block     *)
(* width, so the last block is only partly used.  Arithmetic on quantities *)
(* wraps at 2^QBits, the way the u64/i64 arithmetic of the source wraps at *)
(* 2^64 in a build without overflow checks.                                *)
(*                                                                         *)
(* The constants of the source are fixed when the program is built.  The   *)
(* model has two builds: a scaled one, small enough to explore every book  *)
(* of a few levels, and a larger one whose domain and quantity width hold  *)
(* the prices and quantities of the scenario of the specification.  The    *)
(* variable build names the build and never changes.                       *)
(***************************************************************************)
EXTENDS Integers, Sequences, FiniteSets

\* ------------------------------------------------------------- bounds ---
\* Size of the tick domain (200_001 in the source), in the scaled build and
\* in the build of the scenario.
ScaledMaxPrice == 5
ScenarioMaxPrice == 106
\* Ticks per bitset block, which is the width in bits of the machine word
\* (64 in the source), in the scaled build and in the build of the scenario.
ScaledBlockSize == 2
ScenarioBlockSize == 5
\* The driver keeps at most this many levels resting in the book.
MaxLevels == 4
\* Largest n asked of get_top_levels on the books the claims inspect.
MaxN == 2
\* Largest capacity Vec::with_capacity grants: isize::MAX bytes over the size
\* of one (Price, Quantity) entry, 2^59 - 1 in the source.
MaxCapacity == 3
\* The driver sends an out-of-range price only to a book of at most this many
\* levels.
MaxLevelsOutOfRange == 1

\* Which constants the program was built with: "scaled" or "scenario".
VARIABLE build

MAX_PRICE == IF build = "scenario" THEN ScenarioMaxPrice ELSE ScaledMaxPrice
BLOCK_SIZE == IF build = "scenario" THEN ScenarioBlockSize ELSE ScaledBlockSize
\* Width in bits of Quantity (u64) and of the signed intermediate (i64): the
\* width of the word a bitset block is, so that a block has as many bits as
\* a quantity.
QBits == BLOCK_SIZE

NUM_BLOCKS == (MAX_PRICE + BLOCK_SIZE - 1) \div BLOCK_SIZE

Prices == 0 .. (MAX_PRICE - 1)
Blocks == 0 .. (NUM_BLOCKS - 1)
Sides == {"Bid", "Ask"}

\* 2^QBits, the modulus of the unsigned quantity type.
QMod == 2 ^ QBits
\* Every value of the quantity type.
Quantity == 0 .. (QMod - 1)
\* Quantities the driver sends.  Scaled build: zero, one, and the value whose
\* only set bit is the sign bit of the signed intermediate (two of them
\* overflow the total).  Scenario build: zero and the quantities of the scenario.
UpdateQuantities ==
    IF build = "scenario" THEN {0, 5, 10} ELSE {0, 1, 2 ^ (QBits - 1)}
\* Prices the driver sends.  Scaled build: every price of the domain.
\* Scenario build: the prices of the scenario and the lowest tick.
UpdatePrices ==
    IF build = "scenario" THEN {0, 100, 105} ELSE Prices
\* Prices outside [0, MAX_PRICE): just below, just above, and past the bitset.
OutOfRangePrices == {-1, MAX_PRICE, NUM_BLOCKS * BLOCK_SIZE}

None == << >>
Some(x) == << x >>

Max(a, b) == IF a >= b THEN a ELSE b
Min(a, b) == IF a <= b THEN a ELSE b

\* --------------------------------------------------- integer arithmetic ---
\* `x as i64` of an unsigned quantity: the same bits read as two's complement.
as_i64(x) == IF x >= 2 ^ (QBits - 1) THEN x - QMod ELSE x
\* Result of a signed operation kept in the signed width (wrapping).
wrap_i64(x) == ((x + 2 ^ (QBits - 1)) % QMod) - 2 ^ (QBits - 1)
\* `x as u64` of a signed value, and the result of a wrapping unsigned operation.
as_u64(x) == x % QMod
\* Whether the exact result of a signed operation is a value of the signed type.
fits_i64(x) == -(2 ^ (QBits - 1)) <= x /\ x < 2 ^ (QBits - 1)

\* ----------------------------------------------------------- bit tricks ---
TestBit(mask, bit) == (mask \div (2 ^ bit)) % 2 = 1
\* A block is a u64 like a quantity: whatever word is read as a block, each of
\* its bits is a tick of that block.
\* 63 - mask.leading_zeros(): index of the highest set bit of a non-zero mask.
highest_set_bit(mask) ==
    CHOOSE b \in 0 .. (BLOCK_SIZE - 1) :
        /\ TestBit(mask, b)
        /\ \A c \in (b + 1) .. (BLOCK_SIZE - 1) : ~TestBit(mask, c)
\* mask.trailing_zeros(): index of the lowest set bit of a non-zero mask.
trailing_zeros(mask) ==
    CHOOSE b \in 0 .. (BLOCK_SIZE - 1) :
        /\ TestBit(mask, b)
        /\ \A c \in 0 .. (b - 1) : ~TestBit(mask, c)

\* ---------------------------------------------------------------- state ---
VARIABLES
    bids, asks,                 \* level arrays: price -> quantity
    bitmask_bid, bitmask_ask,   \* presence bitsets: block -> mask
    best_bid, best_ask,         \* cached best prices, -1 if empty
    total_bid_quantity,         \* cached totals
    total_ask_quantity,
    status,                     \* "Ok" while every call kept to the domain;
                                \* "OutOfBounds": the latest call indexed
                                \* outside an array and returned;
                                \* "AfterOutOfBounds": a later call returned;
                                \* "Crashed", "Panicked", "Aborted": the
                                \* latest call ended the process
    last_call                   \* the kind of the public operation called
                                \* last: "new", "apply_update" or "query"

bookVars == << bids, asks, bitmask_bid, bitmask_ask, best_bid, best_ask,
               total_bid_quantity, total_ask_quantity >>
vars == << bids, asks, bitmask_bid, bitmask_ask, best_bid, best_ask,
           total_bid_quantity, total_ask_quantity, status, last_call, build >>

\* ------------------------------------------- memory outside the arrays ---
\* The four arrays are heap allocations of one process.  An unchecked access
\* with an index outside its array lands on a word of another of the arrays,
\* or on memory that holds nothing of the book; which of them depends on
\* where the allocator put the arrays.
Elsewhere == << "elsewhere", 0 >>
Places ==
    (({"bids", "asks"} \X Prices) \cup ({"bitmask_bid", "bitmask_ask"} \X Blocks))
        \cup {Elsewhere}

\* The book as one value.  Beside the fields of the program it carries what
\* the program does not decide: level_place and block_place are where an
\* access outside a level array and outside a bitset lands during the call,
\* oob is what a read of memory that holds nothing of the book yields, and
\* heap is the number of entries the allocator can still provide.  None of
\* them is read by a call that keeps to the domain and to MaxCapacity.  Two
\* more fields record what the latest apply_update did on the way: scanned
\* lists the bitset blocks recompute_best_bid / recompute_best_ask read, in
\* order, and i64_overflow tells whether a signed subtraction or addition
\* left the range of the signed type.
Book(oob) ==
    [ bids |-> bids, asks |-> asks,
      bitmask_bid |-> bitmask_bid, bitmask_ask |-> bitmask_ask,
      best_bid |-> best_bid, best_ask |-> best_ask,
      total_bid_quantity |-> total_bid_quantity,
      total_ask_quantity |-> total_ask_quantity,
      oob |-> oob, level_place |-> Elsewhere, block_place |-> Elsewhere,
      heap |-> MaxCapacity, scanned |-> << >>, i64_overflow |-> FALSE ]
Self == Book(0)
\* The book in a process whose accesses outside the arrays land on the places
\* given.
BookAt(oob, level_place, block_place) ==
    [Book(oob) EXCEPT !.level_place = level_place, !.block_place = block_place]

new ==
    [ bids |-> [p \in Prices |-> 0], asks |-> [p \in Prices |-> 0],
      bitmask_bid |-> [b \in Blocks |-> 0], bitmask_ask |-> [b \in Blocks |-> 0],
      best_bid |-> -1, best_ask |-> -1,
      total_bid_quantity |-> 0, total_ask_quantity |-> 0,
      oob |-> 0, level_place |-> Elsewhere, block_place |-> Elsewhere,
      heap |-> MaxCapacity, scanned |-> << >>, i64_overflow |-> FALSE ]

\* The word at a place: levels and blocks are both u64.
read_place(self, place) ==
    CASE place[1] = "bids" -> self.bids[place[2]]
      [] place[1] = "asks" -> self.asks[place[2]]
      [] place[1] = "bitmask_bid" -> self.bitmask_bid[place[2]]
      [] place[1] = "bitmask_ask" -> self.bitmask_ask[place[2]]
      [] OTHER -> self.oob
\* The book after the word at a place is overwritten.  A write to memory that
\* holds nothing of the book leaves every field as it is.
write_place(self, place, word) ==
    CASE place[1] = "bids" -> [self EXCEPT !.bids[place[2]] = word]
      [] place[1] = "asks" -> [self EXCEPT !.asks[place[2]] = word]
      [] place[1] = "bitmask_bid" -> [self EXCEPT !.bitmask_bid[place[2]] = word]
      [] place[1] = "bitmask_ask" -> [self EXCEPT !.bitmask_ask[place[2]] = word]
      [] OTHER -> self

\* ------------------------------------------------------ level accessors ---
\* get_unchecked: inside the array the element, outside it the word the
\* address falls on.
get_bid(self, price) ==
    IF price \in Prices THEN self.bids[price]
    ELSE read_place(self, self.level_place)
get_ask(self, price) ==
    IF price \in Prices THEN self.asks[price]
    ELSE read_place(self, self.level_place)
\* get_unchecked_mut: outside the array the write goes to the word the
\* address falls on.
set_bid(self, price, qty) ==
    IF price \in Prices THEN [self EXCEPT !.bids[price] = qty]
    ELSE write_place(self, self.level_place, qty)
set_ask(self, price, qty) ==
    IF price \in Prices THEN [self EXCEPT !.asks[price] = qty]
    ELSE write_place(self, self.level_place, qty)

\* mask | (1 << bit) and mask & !(1 << bit) on one block.
or_bit(mask, bit) == IF TestBit(mask, bit) THEN mask ELSE mask + 2 ^ bit
and_not_bit(mask, bit) == IF TestBit(mask, bit) THEN mask - 2 ^ bit ELSE mask

\* block and bit come from `price as usize`; BLOCK_SIZE divides the modulus of
\* usize, so the bit of a negative price is its residue.  A block outside the
\* bitset is read, changed and written back at the word its address falls on.
update_bitmask_bid(self, price, has_qty) ==
    LET block == price \div BLOCK_SIZE
        bit == price % BLOCK_SIZE
    IN IF block \in Blocks
       THEN IF has_qty
            THEN [self EXCEPT !.bitmask_bid[block] = or_bit(@, bit)]
            ELSE [self EXCEPT !.bitmask_bid[block] = and_not_bit(@, bit)]
       ELSE LET word == read_place(self, self.block_place)
            IN IF has_qty
               THEN write_place(self, self.block_place, or_bit(word, bit))
               ELSE write_place(self, self.block_place, and_not_bit(word, bit))
update_bitmask_ask(self, price, has_qty) ==
    LET block == price \div BLOCK_SIZE
        bit == price % BLOCK_SIZE
    IN IF block \in Blocks
       THEN IF has_qty
            THEN [self EXCEPT !.bitmask_ask[block] = or_bit(@, bit)]
            ELSE [self EXCEPT !.bitmask_ask[block] = and_not_bit(@, bit)]
       ELSE LET word == read_place(self, self.block_place)
            IN IF has_qty
               THEN write_place(self, self.block_place, or_bit(word, bit))
               ELSE write_place(self, self.block_place, and_not_bit(word, bit))


\* ------------------------------------------------- best-price recompute ---
\* *self.bitmask_bid.get_unchecked(block): the block, or outside the bitset
\* the word the address falls on.
read_bid_block(self, block) ==
    IF block \in Blocks THEN self.bitmask_bid[block]
    ELSE read_place(self, self.block_place)
read_ask_block(self, block) ==
    IF block \in Blocks THEN self.bitmask_ask[block]
    ELSE read_place(self, self.block_place)
\* The book with one more block read on record.
Scanned(self, block) == [self EXCEPT !.scanned = Append(@, block)]

\* The `while block > 0` loop of recompute_best_bid, entered with the block
\* last examined.
RECURSIVE bid_scan_loop(_, _)
bid_scan_loop(self, block) ==
    IF block > 0
    THEN LET b == block - 1
             mask == read_bid_block(self, b)
             s == Scanned(self, b)
         IN IF mask # 0
            THEN [s EXCEPT !.best_bid = b * BLOCK_SIZE + highest_set_bit(mask)]
            ELSE bid_scan_loop(s, b)
    ELSE [self EXCEPT !.best_bid = -1]

\* Variant of recompute_best_bid that gives up after the start block.
recompute_best_bid_no_scan(self) ==
    LET start_block == Min(Max(self.best_bid, 0) \div BLOCK_SIZE, NUM_BLOCKS - 1)
        mask == read_bid_block(self, start_block)
        s == Scanned(self, start_block)
    IN IF mask # 0
       THEN [s EXCEPT !.best_bid =
                 start_block * BLOCK_SIZE + highest_set_bit(mask)]
       ELSE [s EXCEPT !.best_bid = -1]

recompute_best_bid(self) ==
    LET start_block == Min(Max(self.best_bid, 0) \div BLOCK_SIZE, NUM_BLOCKS - 1)
        mask == read_bid_block(self, start_block)
        s == Scanned(self, start_block)
    IN IF mask # 0
       THEN [s EXCEPT !.best_bid =
                 start_block * BLOCK_SIZE + highest_set_bit(mask)]
       ELSE bid_scan_loop(s, start_block)

\* Variant of ask_scan_loop that takes the highest set bit of the block it
\* finds, as the bid scan does.
RECURSIVE ask_scan_loop_highest_bit(_, _)
ask_scan_loop_highest_bit(self, block) ==
    IF block < NUM_BLOCKS - 1
    THEN LET b == block + 1
             mask == read_ask_block(self, b)
             s == Scanned(self, b)
         IN IF mask # 0
            THEN [s EXCEPT !.best_ask = b * BLOCK_SIZE + highest_set_bit(mask)]
            ELSE ask_scan_loop_highest_bit(s, b)
    ELSE [self EXCEPT !.best_ask = -1]

\* Variant of ask_scan_loop whose bound is off by one: `while block < NUM_BLOCKS`.
RECURSIVE ask_scan_loop_one_too_far(_, _)
ask_scan_loop_one_too_far(self, block) ==
    IF block < NUM_BLOCKS
    THEN LET b == block + 1
             mask == read_ask_block(self, b)
             s == Scanned(self, b)
         IN IF mask # 0
            THEN [s EXCEPT !.best_ask = b * BLOCK_SIZE + trailing_zeros(mask)]
            ELSE ask_scan_loop_one_too_far(s, b)
    ELSE [self EXCEPT !.best_ask = -1]

\* The `while block < NUM_BLOCKS - 1` loop of recompute_best_ask.
RECURSIVE ask_scan_loop(_, _)
ask_scan_loop(self, block) ==
    IF block < NUM_BLOCKS - 1
    THEN LET b == block + 1
             mask == read_ask_block(self, b)
             s == Scanned(self, b)
         IN IF mask # 0
            THEN [s EXCEPT !.best_ask = b * BLOCK_SIZE + trailing_zeros(mask)]
            ELSE ask_scan_loop(s, b)
    ELSE [self EXCEPT !.best_ask = -1]

recompute_best_ask(self) ==
    LET start_block == Min(Max(self.best_ask, 0) \div BLOCK_SIZE, NUM_BLOCKS - 1)
        mask == read_ask_block(self, start_block)
        s == Scanned(self, start_block)
    IN IF mask # 0
       THEN [s EXCEPT !.best_ask =
                 start_block * BLOCK_SIZE + trailing_zeros(mask)]
       ELSE ask_scan_loop(s, start_block)

\* ---------------------------------------------------------- apply_update ---
\* Variant of apply_set_zero_bid that leaves the presence bit set.
apply_set_zero_bid_keeps_bit(self, price) ==
    LET old_qty == get_bid(self, price)
    IN IF old_qty > 0
       THEN LET s1 == set_bid(self, price, 0)
                s3 == [s1 EXCEPT !.total_bid_quantity = as_u64(@ - old_qty)]
            IN IF price = s3.best_bid THEN recompute_best_bid(s3) ELSE s3
       ELSE self

\* Set with quantity == 0, Side::Bid.
apply_set_zero_bid(self, price) ==
    LET old_qty == get_bid(self, price)
    IN IF old_qty > 0
       THEN LET s1 == set_bid(self, price, 0)
                s2 == update_bitmask_bid(s1, price, FALSE)
                s3 == [s2 EXCEPT !.total_bid_quantity = as_u64(@ - old_qty)]
            IN IF price = s3.best_bid THEN recompute_best_bid(s3) ELSE s3
       ELSE self

\* Variant of apply_set_zero_ask that never recomputes the best ask.
apply_set_zero_ask_no_recompute(self, price) ==
    LET old_qty == get_ask(self, price)
    IN IF old_qty > 0
       THEN LET s1 == set_ask(self, price, 0)
                s2 == update_bitmask_ask(s1, price, FALSE)
            IN [s2 EXCEPT !.total_ask_quantity = as_u64(@ - old_qty)]
       ELSE self

\* Set with quantity == 0, Side::Ask.
apply_set_zero_ask(self, price) ==
    LET old_qty == get_ask(self, price)
    IN IF old_qty > 0
       THEN LET s1 == set_ask(self, price, 0)
                s2 == update_bitmask_ask(s1, price, FALSE)
                s3 == [s2 EXCEPT !.total_ask_quantity = as_u64(@ - old_qty)]
            IN IF price = s3.best_ask THEN recompute_best_ask(s3) ELSE s3
       ELSE self

\* Variant of apply_set_bid that takes the price set last for the best bid.
apply_set_bid_best_is_price(self, price, quantity) ==
    LET old_qty == get_bid(self, price)
        was_new == old_qty = 0
        s1 == set_bid(self, price, quantity)
        s2 == IF was_new THEN update_bitmask_bid(s1, price, TRUE) ELSE s1
        diff == wrap_i64(as_i64(quantity) - as_i64(old_qty))
        s3 == [s2 EXCEPT !.total_bid_quantity =
                   as_u64(wrap_i64(as_i64(@) + diff))]
    IN [s3 EXCEPT !.best_bid = price]

\* Variant of apply_set_bid that adds the new quantity to the total without
\* taking the old one off.
apply_set_bid_adds_quantity(self, price, quantity) ==
    LET old_qty == get_bid(self, price)
        was_new == old_qty = 0
        s1 == set_bid(self, price, quantity)
        s2 == IF was_new THEN update_bitmask_bid(s1, price, TRUE) ELSE s1
        s3 == [s2 EXCEPT !.total_bid_quantity =
                   as_u64(wrap_i64(as_i64(@) + as_i64(quantity)))]
    IN [s3 EXCEPT !.best_bid = Max(@, price)]

\* Set with quantity > 0, Side::Bid.
apply_set_bid(self, price, quantity) ==
    LET old_qty == get_bid(self, price)
        was_new == old_qty = 0
        s1 == set_bid(self, price, quantity)
        s2 == IF was_new THEN update_bitmask_bid(s1, price, TRUE) ELSE s1
        diff == wrap_i64(as_i64(quantity) - as_i64(old_qty))
        s3 == [s2 EXCEPT !.total_bid_quantity =
                   as_u64(wrap_i64(as_i64(@) + diff)),
                         !.i64_overflow =
                   \/ ~fits_i64(as_i64(quantity) - as_i64(old_qty))
                   \/ ~fits_i64(as_i64(s2.total_bid_quantity) + diff)]
    IN [s3 EXCEPT !.best_bid = Max(@, price)]

\* Variant of apply_set_ask that takes the minimum without looking for the
\* empty sentinel first.
apply_set_ask_min_with_sentinel(self, price, quantity) ==
    LET old_qty == get_ask(self, price)
        was_new == old_qty = 0
        s1 == set_ask(self, price, quantity)
        s2 == IF was_new THEN update_bitmask_ask(s1, price, TRUE) ELSE s1
        diff == wrap_i64(as_i64(quantity) - as_i64(old_qty))
        s3 == [s2 EXCEPT !.total_ask_quantity =
                   as_u64(wrap_i64(as_i64(@) + diff))]
    IN [s3 EXCEPT !.best_ask = Min(@, price)]

\* Variant of apply_set_ask that adds the new quantity to the total without
\* taking the old one off.
apply_set_ask_adds_quantity(self, price, quantity) ==
    LET old_qty == get_ask(self, price)
        was_new == old_qty = 0
        s1 == set_ask(self, price, quantity)
        s2 == IF was_new THEN update_bitmask_ask(s1, price, TRUE) ELSE s1
        s3 == [s2 EXCEPT !.total_ask_quantity =
                   as_u64(wrap_i64(as_i64(@) + as_i64(quantity)))]
    IN IF s3.best_ask < 0
       THEN [s3 EXCEPT !.best_ask = price]
       ELSE [s3 EXCEPT !.best_ask = Min(@, price)]

\* Set with quantity > 0, Side::Ask.
apply_set_ask(self, price, quantity) ==
    LET old_qty == get_ask(self, price)
        was_new == old_qty = 0
        s1 == set_ask(self, price, quantity)
        s2 == IF was_new THEN update_bitmask_ask(s1, price, TRUE) ELSE s1
        diff == wrap_i64(as_i64(quantity) - as_i64(old_qty))
        s3 == [s2 EXCEPT !.total_ask_quantity =
                   as_u64(wrap_i64(as_i64(@) + diff)),
                         !.i64_overflow =
                   \/ ~fits_i64(as_i64(quantity) - as_i64(old_qty))
                   \/ ~fits_i64(as_i64(s2.total_ask_quantity) + diff)]
    IN IF s3.best_ask < 0
       THEN [s3 EXCEPT !.best_ask = price]
       ELSE [s3 EXCEPT !.best_ask = Min(@, price)]

\* Variant of apply_remove_bid that leaves the total as it was.
apply_remove_bid_keeps_total(self, price) ==
    LET old_qty == get_bid(self, price)
    IN IF old_qty > 0
       THEN LET s1 == set_bid(self, price, 0)
                s2 == update_bitmask_bid(s1, price, FALSE)
            IN IF price = s2.best_bid THEN recompute_best_bid(s2) ELSE s2
       ELSE self

\* Variant of apply_remove_bid that reads the old quantity from the ask array.
apply_remove_bid_reads_ask(self, price) ==
    LET old_qty == get_ask(self, price)
    IN IF old_qty > 0
       THEN LET s1 == set_bid(self, price, 0)
                s2 == update_bitmask_bid(s1, price, FALSE)
                s3 == [s2 EXCEPT !.total_bid_quantity = as_u64(@ - old_qty)]
            IN IF price = s3.best_bid THEN recompute_best_bid(s3) ELSE s3
       ELSE self

\* Remove, Side::Bid.
apply_remove_bid(self, price) ==
    LET old_qty == get_bid(self, price)
    IN IF old_qty > 0
       THEN LET s1 == set_bid(self, price, 0)
                s2 == update_bitmask_bid(s1, price, FALSE)
                s3 == [s2 EXCEPT !.total_bid_quantity = as_u64(@ - old_qty)]
            IN IF price = s3.best_bid THEN recompute_best_bid(s3) ELSE s3
       ELSE self

\* Variant of apply_remove_ask that recomputes the best ask after every removal.
apply_remove_ask_always_recompute(self, price) ==
    LET old_qty == get_ask(self, price)
    IN IF old_qty > 0
       THEN LET s1 == set_ask(self, price, 0)
                s2 == update_bitmask_ask(s1, price, FALSE)
                s3 == [s2 EXCEPT !.total_ask_quantity = as_u64(@ - old_qty)]
            IN recompute_best_ask(s3)
       ELSE self

\* Remove, Side::Ask.
apply_remove_ask(self, price) ==
    LET old_qty == get_ask(self, price)
    IN IF old_qty > 0
       THEN LET s1 == set_ask(self, price, 0)
                s2 == update_bitmask_ask(s1, price, FALSE)
                s3 == [s2 EXCEPT !.total_ask_quantity = as_u64(@ - old_qty)]
            IN IF price = s3.best_ask THEN recompute_best_ask(s3) ELSE s3
       ELSE self

\* The two kinds of update.
SetUpdate(price, quantity, side) ==
    [type |-> "Set", price |-> price, quantity |-> quantity, side |-> side]
RemoveUpdate(price, side) ==
    [type |-> "Remove", price |-> price, quantity |-> 0, side |-> side]

\* The record of the scan and of the signed arithmetic starts afresh with
\* every call.
apply_update(self, update) ==
    LET s0 == [self EXCEPT !.scanned = << >>, !.i64_overflow = FALSE]
    IN IF update.type = "Set"
       THEN IF update.quantity = 0
            THEN IF update.side = "Bid"
                 THEN apply_set_zero_bid(s0, update.price)
                 ELSE apply_set_zero_ask(s0, update.price)
            ELSE IF update.side = "Bid"
                 THEN apply_set_bid(s0, update.price, update.quantity)
                 ELSE apply_set_ask(s0, update.price, update.quantity)
       ELSE IF update.side = "Bid"
            THEN apply_remove_bid(s0, update.price)
            ELSE apply_remove_ask(s0, update.price)

\* -------------------------------------------------------------- queries ---
\* Variant of get_spread that takes price 0 for the empty sentinel.
get_spread_positive_only(self) ==
    LET bid == self.best_bid
        ask == self.best_ask
    IN IF bid > 0 /\ ask > 0 THEN Some(ask - bid) ELSE None

get_spread(self) ==
    LET bid == self.best_bid
        ask == self.best_ask
    IN IF bid >= 0 /\ ask >= 0 THEN Some(ask - bid) ELSE None

get_best_bid(self) ==
    LET bid == self.best_bid IN IF bid >= 0 THEN Some(bid) ELSE None

get_best_ask(self) ==
    LET ask == self.best_ask IN IF ask >= 0 THEN Some(ask) ELSE None

get_quantity_at(self, price, side) ==
    IF side = "Bid"
    THEN LET qty == get_bid(self, price) IN IF qty > 0 THEN Some(qty) ELSE None
    ELSE LET qty == get_ask(self, price) IN IF qty > 0 THEN Some(qty) ELSE None

\* The `while p >= 0 && count < n` loop of get_top_levels, Side::Bid.
RECURSIVE top_bid_loop(_, _, _, _, _)
top_bid_loop(self, p, count, n, result) ==
    IF p >= 0 /\ count < n
    THEN LET qty == get_bid(self, p)
         IN IF qty > 0
            THEN top_bid_loop(self, p - 1, count + 1, n,
                              Append(result, << p, qty >>))
            ELSE top_bid_loop(self, p - 1, count, n, result)
    ELSE result

\* The `while p < MAX_PRICE && count < n` loop of get_top_levels, Side::Ask.
RECURSIVE top_ask_loop(_, _, _, _, _)
top_ask_loop(self, p, count, n, result) ==
    IF p < MAX_PRICE /\ count < n
    THEN LET qty == get_ask(self, p)
         IN IF qty > 0
            THEN top_ask_loop(self, p + 1, count + 1, n,
                              Append(result, << p, qty >>))
            ELSE top_ask_loop(self, p + 1, count, n, result)
    ELSE result

\* What a call of get_top_levels comes to: the Vec it returns, the panic of
\* Vec::with_capacity, or the abort of the process by the allocator.
Returned(levels) == [outcome |-> "returned", levels |-> levels]
CapacityOverflow == [outcome |-> "capacity overflow", levels |-> << >>]
AllocationFailed == [outcome |-> "allocation failed", levels |-> << >>]

\* Vec::with_capacity(n): the empty Vec; a panic when n entries take more than
\* isize::MAX bytes; an abort when the allocator cannot provide n entries.
with_capacity(self, n) ==
    IF n > MaxCapacity THEN CapacityOverflow
    ELSE IF n > self.heap THEN AllocationFailed
    ELSE Returned(<< >>)

get_top_levels(self, side, n) ==
    IF side = "Bid"
    THEN LET result == with_capacity(self, n)
         IN IF result.outcome # "returned" THEN result
            ELSE IF self.best_bid < 0 THEN result
            ELSE Returned(top_bid_loop(self, self.best_bid, 0, n, result.levels))
    ELSE LET result == with_capacity(self, n)
         IN IF result.outcome # "returned" THEN result
            ELSE IF self.best_ask < 0 THEN result
            ELSE Returned(top_ask_loop(self, self.best_ask, 0, n, result.levels))

get_total_quantity(self, side) ==
    IF side = "Bid" THEN self.total_bid_quantity ELSE self.total_ask_quantity

\* ----------------------------------------------------------- the system ---
\* OrderBookImpl::new() in the given build.
InitBuild(b) ==
    /\ build = b
    /\ bids = new.bids
    /\ asks = new.asks
    /\ bitmask_bid = new.bitmask_bid
    /\ bitmask_ask = new.bitmask_ask
    /\ best_bid = new.best_bid
    /\ best_ask = new.best_ask
    /\ total_bid_quantity = new.total_bid_quantity
    /\ total_ask_quantity = new.total_ask_quantity
    /\ status = "Ok"
    /\ last_call = "new"

Init == InitBuild("scaled")

\* The book becomes s.
Becomes(s) ==
    /\ bids' = s.bids
    /\ asks' = s.asks
    /\ bitmask_bid' = s.bitmask_bid
    /\ bitmask_ask' = s.bitmask_ask
    /\ best_bid' = s.best_bid
    /\ best_ask' = s.best_ask
    /\ total_bid_quantity' = s.total_bid_quantity
    /\ total_ask_quantity' = s.total_ask_quantity

\* Number of occupied levels of both sides.
Occupied ==
    Cardinality({p \in Prices : bids[p] > 0})
        + Cardinality({p \in Prices : asks[p] > 0})

\* The driver opens a new level only while fewer than MaxLevels are resting.
MayApply(price, quantity, side) ==
    \/ quantity = 0
    \/ get_quantity_at(Self, price, side) # None
    \/ Occupied < MaxLevels

\* apply_update(Update::Set {price, quantity, side}) with an in-domain price.
ApplySet ==
    /\ status = "Ok"
    /\ \E price \in UpdatePrices, quantity \in UpdateQuantities, side \in Sides :
          /\ MayApply(price, quantity, side)
          /\ Becomes(apply_update(Self, SetUpdate(price, quantity, side)))
    /\ status' = "Ok"
    /\ last_call' = "apply_update"
    /\ build' = build

\* apply_update(Update::Remove {price, side}) with an in-domain price.
ApplyRemove ==
    /\ status = "Ok"
    /\ \E price \in UpdatePrices, side \in Sides :
          Becomes(apply_update(Self, RemoveUpdate(price, side)))
    /\ status' = "Ok"
    /\ last_call' = "apply_update"
    /\ build' = build

Next == ApplySet \/ ApplyRemove

Spec == Init /\ [][Next]_vars

\* The book built with the constants that hold the scenario, driven with the
\* prices and quantities of the scenario.
InitScenario == InitBuild("scenario")
SpecScenario == InitScenario /\ [][Next]_vars


\* What the answer of a query may be.
Answers ==
    {None} \cup {Some(x) : x \in (1 - MAX_PRICE) .. (QMod + MAX_PRICE)}

\* The driver sends a price outside [0, MAX_PRICE) only to a small book.
MayGoOutOfRange == Occupied <= MaxLevelsOutOfRange

\* apply_update with a price outside [0, MAX_PRICE): the unchecked accesses
\* fall outside the level array, and outside the bitset when the block does.
\* Either the access ends the process, or each lands on a word of one of the
\* arrays or on memory that holds nothing of the book, whose content is
\* arbitrary, and the rest of apply_update runs on what was read.
ApplyUpdateOutOfRange ==
    /\ status = "Ok"
    /\ MayGoOutOfRange
    /\ \/ /\ \E price \in OutOfRangePrices, quantity \in UpdateQuantities,
                side \in Sides, level_place \in Places, block_place \in Places :
                \E garbage \in (IF level_place = Elsewhere THEN Quantity ELSE {0}) :
                   \/ Becomes(apply_update(BookAt(garbage, level_place, block_place),
                                           SetUpdate(price, quantity, side)))
                   \/ Becomes(apply_update(BookAt(garbage, level_place, block_place),
                                           RemoveUpdate(price, side)))
          /\ status' = "OutOfBounds"
       \/ /\ UNCHANGED bookVars
          /\ status' = "Crashed"
    /\ last_call' = "apply_update"
    /\ build' = build

\* get_quantity_at with a price outside [0, MAX_PRICE): an unchecked read
\* outside the level array.  Either it ends the process, or the word it lands
\* on decides between Some and None.
GetQuantityAtOutOfRange ==
    /\ status = "Ok"
    /\ MayGoOutOfRange
    /\ \/ /\ \E price \in OutOfRangePrices, side \in Sides, level_place \in Places :
                \E garbage \in (IF level_place = Elsewhere THEN Quantity ELSE {0}) :
                   get_quantity_at(BookAt(garbage, level_place, Elsewhere),
                                   price, side) \in Answers
          /\ status' = "OutOfBounds"
       \/ status' = "Crashed"
    /\ last_call' = "query"
    /\ build' = build
    /\ UNCHANGED bookVars

\* The call with the out-of-range price has returned and the program goes on:
\* apply_update with an in-domain price on the book as that call left it.
ApplyUpdateAfterOutOfRange ==
    /\ status = "OutOfBounds"
    /\ \E price \in UpdatePrices, quantity \in UpdateQuantities, side \in Sides :
          \/ /\ MayApply(price, quantity, side)
             /\ Becomes(apply_update(Self, SetUpdate(price, quantity, side)))
          \/ Becomes(apply_update(Self, RemoveUpdate(price, side)))
    /\ status' = "AfterOutOfBounds"
    /\ last_call' = "apply_update"
    /\ build' = build

NextOutOfRange ==
    \/ ApplySet \/ ApplyRemove
    \/ ApplyUpdateOutOfRange \/ GetQuantityAtOutOfRange
    \/ ApplyUpdateAfterOutOfRange

\* The book driven with in-domain and out-of-range prices.
SpecOutOfRange == Init /\ [][NextOutOfRange]_vars

\* ---------------------------------------------------- the query handlers ---
\* Each query takes &self: it computes its answer from the book and returns.
GetSpread ==
    /\ status = "Ok"
    /\ get_spread(Self) \in Answers
    /\ last_call' = "query"
    /\ build' = build
    /\ UNCHANGED << bookVars, status >>

GetBestBid ==
    /\ status = "Ok"
    /\ get_best_bid(Self) \in Answers
    /\ last_call' = "query"
    /\ build' = build
    /\ UNCHANGED << bookVars, status >>

GetBestAsk ==
    /\ status = "Ok"
    /\ get_best_ask(Self) \in Answers
    /\ last_call' = "query"
    /\ build' = build
    /\ UNCHANGED << bookVars, status >>

\* get_quantity_at with an in-domain price.
GetQuantityAt ==
    /\ status = "Ok"
    /\ \E price \in Prices, side \in Sides :
          get_quantity_at(Self, price, side) \in Answers
    /\ last_call' = "query"
    /\ build' = build
    /\ UNCHANGED << bookVars, status >>

\* Variant of GetTopLevels that takes the best bid level out of the book as it
\* hands it out.
GetTopLevelsDraining ==
    /\ status = "Ok"
    /\ best_bid >= 0
    /\ Becomes(apply_update(Self, RemoveUpdate(best_bid, "Bid")))
    /\ last_call' = "query"
    /\ build' = build
    /\ UNCHANGED status

\* The n asked of get_top_levels: the small ones, the largest capacity and
\* one more; and what the allocator may have left when it is asked.
TopLevelCounts == (0 .. MaxN) \cup {MaxCapacity, MaxCapacity + 1}
HeapSizes == {MaxN, MaxCapacity}

\* A panic or an abort of Vec::with_capacity ends the process; the book is as
\* it was.
GetTopLevels ==
    /\ status = "Ok"
    /\ \E side \in Sides, n \in TopLevelCounts, heap \in HeapSizes :
          LET r == get_top_levels([Self EXCEPT !.heap = heap], side, n)
          IN status' = CASE r.outcome = "capacity overflow" -> "Panicked"
                         [] r.outcome = "allocation failed" -> "Aborted"
                         [] OTHER -> "Ok"
    /\ last_call' = "query"
    /\ build' = build
    /\ UNCHANGED bookVars

GetTotalQuantity ==
    /\ status = "Ok"
    /\ \E side \in Sides : get_total_quantity(Self, side) \in Quantity
    /\ last_call' = "query"
    /\ build' = build
    /\ UNCHANGED << bookVars, status >>

NextQueries ==
    \/ ApplySet \/ ApplyRemove
    \/ GetSpread \/ GetBestBid \/ GetBestAsk
    \/ GetQuantityAt \/ GetTopLevels \/ GetTotalQuantity

\* The book driven with in-domain updates and queries in any order.
SpecQueries == Init /\ [][NextQueries]_vars

\* ------------------------------------------------------------ reference ---
\* What the claims compare the book with, computed from the level arrays alone.
OccupiedBids == {p \in Prices : bids[p] > 0}
OccupiedAsks == {p \in Prices : asks[p] > 0}
SetMax(S) == CHOOSE x \in S : \A y \in S : y <= x
SetMin(S) == CHOOSE x \in S : \A y \in S : x <= y
BlockOf(price) == price \div BLOCK_SIZE

\* The fields of the program alone, without the record of the latest call.
Fields(self) ==
    [self EXCEPT !.oob = 0, !.level_place = Elsewhere, !.block_place = Elsewhere,
                 !.heap = MaxCapacity, !.scanned = << >>, !.i64_overflow = FALSE]

RECURSIVE SumUpTo(_, _)
SumUpTo(levels, p) == IF p < 0 THEN 0 ELSE levels[p] + SumUpTo(levels, p - 1)
SumOfLevels(levels) == SumUpTo(levels, MAX_PRICE - 1)

\* ---------------------------------------------------------------- claims ---

\* C1: after every apply_update with an in-domain price, get_best_bid is the
\* highest price with a non-zero bid quantity, or None when there is none, and
\* get_best_ask is the lowest price with a non-zero ask quantity, or None.
C1_BestPricesAreExtremes ==
    /\ get_best_bid(Self) =
           (IF OccupiedBids = {} THEN None ELSE Some(SetMax(OccupiedBids)))
    /\ get_best_ask(Self) =
           (IF OccupiedAsks = {} THEN None ELSE Some(SetMin(OccupiedAsks)))

\* A crossed book with two bid levels in different blocks and an ask level.
C1_Witness ==
    /\ \E p, q \in OccupiedBids : BlockOf(p) # BlockOf(q)
    /\ OccupiedAsks # {}
    /\ get_best_bid(Self) = Some(SetMax(OccupiedBids))
    /\ get_best_ask(Self) = Some(SetMin(OccupiedAsks))
    /\ best_ask < best_bid

\* C2 as stated: the cached total of each side equals the sum of that side's
\* level quantities over the whole price domain.
C2_TotalEqualsSum ==
    /\ get_total_quantity(Self, "Bid") = SumOfLevels(bids)
    /\ get_total_quantity(Self, "Ask") = SumOfLevels(asks)

\* C2 amended: the cached total of each side equals the sum of that side's
\* level quantities reduced modulo 2^QBits, the width of the unsigned total;
\* so it equals the sum whenever the sum fits that width.
C2_TotalEqualsSumModWidth ==
    /\ get_total_quantity(Self, "Bid") = SumOfLevels(bids) % QMod
    /\ get_total_quantity(Self, "Ask") = SumOfLevels(asks) % QMod

\* Two bid levels whose quantities add up inside the width, and two ask levels
\* whose quantities add up to the width or more.
C2_Witness ==
    /\ Cardinality(OccupiedBids) >= 2
    /\ SumOfLevels(bids) < QMod
    /\ total_bid_quantity = SumOfLevels(bids)
    /\ Cardinality(OccupiedAsks) >= 2
    /\ SumOfLevels(asks) >= QMod
    /\ total_ask_quantity = SumOfLevels(asks) - QMod

\* C3: between operations, for each side and each in-domain price p, bit
\* p mod BLOCK_SIZE of block p div BLOCK_SIZE is set iff the level quantity
\* stored at p is greater than zero.
C3_BitIffLevelOccupied ==
    \A p \in Prices :
        /\ TestBit(bitmask_bid[p \div BLOCK_SIZE], p % BLOCK_SIZE) <=> (bids[p] > 0)
        /\ TestBit(bitmask_ask[p \div BLOCK_SIZE], p % BLOCK_SIZE) <=> (asks[p] > 0)

\* On the bid side a block with its first two bits set next to an empty block;
\* on the ask side the last tick of the domain, in the partly used last block.
C3_Witness ==
    /\ TestBit(bitmask_bid[0], 0) /\ TestBit(bitmask_bid[0], 1)
    /\ bitmask_bid[1] = 0
    /\ bids[0] > 0 /\ bids[1] > 0
    /\ bitmask_ask[NUM_BLOCKS - 1] # 0
    /\ asks[MAX_PRICE - 1] > 0


\* C4: a call with an out-of-range price fails with InvalidPrice instead of
\* accessing a level array out of bounds, and leaves the book unchanged.
\* (Of the calls sent while status is "Ok", those with an in-domain price
\* leave it "Ok" and those with an out-of-range price do not.)
C4_OutOfRangeFailsWithInvalidPrice ==
    [][(status = "Ok" /\ status' # "Ok")
           => (status' = "InvalidPrice" /\ UNCHANGED bookVars)]_vars

\* ---- claims about one more update, applied to every reachable book ----
NextBelow(levels, p) == {q \in Prices : q < p /\ levels[q] > 0}
NextAbove(levels, p) == {q \in Prices : q > p /\ levels[q] > 0}
\* The two updates that take a level away.
Removals(price, side) == {RemoveUpdate(price, side), SetUpdate(price, 0, side)}

\* C5: removing the cached best price of a side, by Remove or by a
\* zero-quantity Set, leaves as best the highest occupied bid tick strictly
\* below it (the lowest occupied ask tick strictly above it), or None when
\* the side has no other occupied level.
C5_RemoveBestYieldsNextBest ==
    \A price \in Prices :
        /\ get_best_bid(Self) = Some(price) =>
              \A u \in Removals(price, "Bid") :
                  get_best_bid(apply_update(Self, u)) =
                      (IF NextBelow(bids, price) = {} THEN None
                       ELSE Some(SetMax(NextBelow(bids, price))))
        /\ get_best_ask(Self) = Some(price) =>
              \A u \in Removals(price, "Ask") :
                  get_best_ask(apply_update(Self, u)) =
                      (IF NextAbove(asks, price) = {} THEN None
                       ELSE Some(SetMin(NextAbove(asks, price))))

\* Removing the best bid makes the scan pass an empty block and stop in a
\* block with more than one bit set; removing the best ask empties the side.
C5_Witness ==
    /\ best_bid >= 0
    /\ LET after == apply_update(Self, RemoveUpdate(best_bid, "Bid"))
       IN /\ after.best_bid >= 0
          /\ BlockOf(after.best_bid) + 2 <= BlockOf(best_bid)
          /\ Cardinality({q \in OccupiedBids :
                             BlockOf(q) = BlockOf(after.best_bid)}) >= 2
    /\ best_ask >= 0
    /\ get_best_ask(apply_update(Self, RemoveUpdate(best_ask, "Ask"))) = None

\* Everything the queries show of a book.
Observable(self) ==
    [ best_bid |-> get_best_bid(self),
      best_ask |-> get_best_ask(self),
      spread |-> get_spread(self),
      totals |-> [sd \in Sides |-> get_total_quantity(self, sd)],
      quantity_at |-> [x \in Prices \X Sides |-> get_quantity_at(self, x[1], x[2])],
      top_levels |-> [x \in Sides \X (0 .. MaxN) |-> get_top_levels(self, x[1], x[2])] ]

\* C6: applying the same Set update twice in a row shows the same best
\* prices, spread, totals, quantities and top levels as applying it once.
\* The queries read the book alone, so a second application that leaves
\* every field of the book as it was shows the same; the answers are
\* compared whenever the second application changes a field.
C6_SetIsIdempotent ==
    \A price \in Prices, quantity \in UpdateQuantities, side \in Sides :
        LET u == SetUpdate(price, quantity, side)
        IN \A once \in {apply_update(Self, u)} :
               \A twice \in {apply_update(once, u)} :
                   \/ Fields(twice) = Fields(once)
                   \/ Observable(twice) = Observable(once)

\* A Set that replaces the quantity of an occupied ask level by another one,
\* changing the total the first time and nothing the second time.
C6_Witness ==
    \E price \in OccupiedAsks, quantity \in UpdateQuantities \ {0} :
        LET u == SetUpdate(price, quantity, "Ask")
            once == apply_update(Self, u)
        IN /\ asks[price] # quantity
           /\ Cardinality(OccupiedAsks) >= 2
           /\ get_total_quantity(once, "Ask") # total_ask_quantity
           /\ Fields(apply_update(once, u)) = Fields(once)

\* C7: for every in-domain price and side, Set with quantity 0 and Remove
\* leave the same level arrays, bitsets, best prices and totals.
C7_SetZeroIsRemove ==
    \A price \in Prices, side \in Sides :
        apply_update(Self, SetUpdate(price, 0, side))
            = apply_update(Self, RemoveUpdate(price, side))

\* The best ask of a side with another level is taken away either way.
C7_Witness ==
    /\ best_ask >= 0
    /\ Cardinality(OccupiedAsks) >= 2
    /\ LET a == apply_update(Self, SetUpdate(best_ask, 0, "Ask"))
           b == apply_update(Self, RemoveUpdate(best_ask, "Ask"))
       IN a = b /\ a.best_ask > best_ask /\ a.asks[best_ask] = 0

\* C8: Remove or a zero-quantity Set at an in-domain price whose level is
\* empty changes nothing: level arrays, bitsets, best prices and totals of
\* both sides stay as they are.
C8_RemoveEmptyIsNoOp ==
    \A price \in Prices, side \in Sides :
        get_quantity_at(Self, price, side) = None =>
            \A u \in Removals(price, side) : apply_update(Self, u) = Self

\* An empty bid level is removed while the ask level at the same price and
\* other bid levels are occupied.
C8_Witness ==
    \E price \in Prices :
        /\ bids[price] = 0 /\ asks[price] > 0
        /\ OccupiedBids # {}
        /\ apply_update(Self, RemoveUpdate(price, "Bid")) = Self
        /\ status = "Ok"

\* C9: get_spread is None iff at least one side has no occupied level;
\* otherwise it is best ask - best bid, whatever its sign: a Set that crosses
\* the book is stored as given.
C9_SpreadIsAskMinusBid ==
    /\ (get_spread(Self) = None) <=> (OccupiedBids = {} \/ OccupiedAsks = {})
    /\ (OccupiedBids # {} /\ OccupiedAsks # {}) =>
          get_spread(Self) = Some(SetMin(OccupiedAsks) - SetMax(OccupiedBids))
    /\ \A price \in Prices, quantity \in UpdateQuantities \ {0}, side \in Sides :
          get_quantity_at(apply_update(Self, SetUpdate(price, quantity, side)),
                          price, side) = Some(quantity)

\* A crossed book: the spread is negative.
C9_Witness ==
    /\ OccupiedBids # {} /\ OccupiedAsks # {}
    /\ get_spread(Self) = Some(best_ask - best_bid)
    /\ best_ask - best_bid < 0

\* C10: for every n, get_top_levels(side, n) returns at most n entries,
\* strictly descending in price for bid and strictly ascending for ask, each
\* with a positive quantity; n = 0 gives the empty sequence.
C10_TopLevelsBoundedOrderedPositive ==
    \A side \in Sides, n \in TopLevelCounts :
        \A r \in {get_top_levels(Self, side, n)} :
            /\ r.outcome = "returned"
            /\ Len(r.levels) <= n
            /\ \A i \in 1 .. (Len(r.levels) - 1) :
                  IF side = "Bid" THEN r.levels[i][1] > r.levels[i + 1][1]
                                  ELSE r.levels[i][1] < r.levels[i + 1][1]
            /\ \A i \in 1 .. Len(r.levels) : r.levels[i][2] > 0
            /\ (n = 0 => r.levels = << >>)

\* C11: get_quantity_at(price, side) is None when the price is outside the
\* domain or the level is zero, and Some of the stored quantity otherwise;
\* wherever an unchecked read outside the level array lands and whatever it
\* yields.
C11_QuantityAtEmptyOrStored ==
    \A price \in Prices \cup OutOfRangePrices, side \in Sides,
       level_place \in Places, garbage \in Quantity :
        LET level == IF side = "Bid" THEN bids ELSE asks
        IN get_quantity_at(BookAt(garbage, level_place, Elsewhere), price, side) =
               (IF price \notin Prices THEN None
                ELSE IF level[price] = 0 THEN None
                ELSE Some(level[price]))

\* C12: a Set with quantity > 0 at an occupied price replaces the quantity of
\* that level alone and moves the side's total by new - old (in the width of
\* the total); both bitsets and both cached best prices stay as they are.
C12_SetOccupiedReplacesQuantity ==
    \A price \in Prices, quantity \in UpdateQuantities \ {0}, side \in Sides :
        get_quantity_at(Self, price, side) # None =>
            \A after \in {apply_update(Self, SetUpdate(price, quantity, side))} :
                /\ IF side = "Bid"
                   THEN /\ after.bids = [bids EXCEPT ![price] = quantity]
                        /\ after.asks = asks
                        /\ after.total_bid_quantity =
                               (total_bid_quantity + quantity - bids[price]) % QMod
                        /\ after.total_ask_quantity = total_ask_quantity
                   ELSE /\ after.asks = [asks EXCEPT ![price] = quantity]
                        /\ after.bids = bids
                        /\ after.total_ask_quantity =
                               (total_ask_quantity + quantity - asks[price]) % QMod
                        /\ after.total_bid_quantity = total_bid_quantity
                /\ after.bitmask_bid = bitmask_bid
                /\ after.bitmask_ask = bitmask_ask
                /\ after.best_bid = best_bid
                /\ after.best_ask = best_ask

\* An occupied bid level below the best bid gets another quantity: the total
\* moves, the best bid does not.
C12_Witness ==
    \E price \in OccupiedBids, quantity \in UpdateQuantities \ {0} :
        LET after == apply_update(Self, SetUpdate(price, quantity, "Bid"))
        IN /\ price < best_bid
           /\ bids[price] # quantity
           /\ after.bids[price] = quantity
           /\ after.total_bid_quantity # total_bid_quantity
           /\ after.best_bid = best_bid

\* C13: a Set with quantity > 0 at an empty price p stores the level and sets
\* its bit, and without reading a bitset block makes the best bid
\* max(best bid, p), or p if there was none, and the best ask min(best ask, p),
\* or p if there was none; so the best bid never falls and the best ask never
\* rises.
C13_InsertUpdatesBestWithoutScan ==
    \A price \in Prices, quantity \in UpdateQuantities \ {0}, side \in Sides :
        get_quantity_at(Self, price, side) = None =>
            \A after \in {apply_update(Self, SetUpdate(price, quantity, side))} :
                /\ get_quantity_at(after, price, side) = Some(quantity)
                /\ after.scanned = << >>
                /\ IF side = "Bid"
                   THEN /\ TestBit(after.bitmask_bid[price \div BLOCK_SIZE],
                                   price % BLOCK_SIZE)
                        /\ get_best_bid(after) =
                               (IF get_best_bid(Self) = None THEN Some(price)
                                ELSE Some(Max(get_best_bid(Self)[1], price)))
                        /\ after.best_bid >= best_bid
                   ELSE /\ TestBit(after.bitmask_ask[price \div BLOCK_SIZE],
                                   price % BLOCK_SIZE)
                        /\ get_best_ask(after) =
                               (IF get_best_ask(Self) = None THEN Some(price)
                                ELSE Some(Min(get_best_ask(Self)[1], price)))
                        /\ (best_ask >= 0 => after.best_ask <= best_ask)

\* The ask side is empty, so an insert there gives the first best ask; the bid
\* side has a best, which an insert below it leaves and one above it raises.
C13_Witness ==
    /\ OccupiedAsks = {}
    /\ get_best_ask(apply_update(Self, SetUpdate(0, 1, "Ask"))) = Some(0)
    /\ \E low, high \in Prices :
          /\ low < best_bid /\ best_bid < high
          /\ bids[low] = 0 /\ bids[high] = 0
          /\ apply_update(Self, SetUpdate(low, 1, "Bid")).best_bid = best_bid
          /\ apply_update(Self, SetUpdate(high, 1, "Bid")).best_bid = high

\* C14: a query leaves the level arrays, bitsets, cached best prices and
\* totals as they are; so queries put anywhere into a sequence of updates
\* change neither the book the updates lead to nor, the answers being computed
\* from the book alone, any answer.
C14_QueriesNeverMutate ==
    [][last_call' = "query" => UNCHANGED bookVars]_vars

\* A query has just been called on a book with levels on both sides.
C14_Witness ==
    /\ last_call = "query"
    /\ Cardinality(OccupiedBids) >= 2
    /\ OccupiedAsks # {}
    /\ get_top_levels(Self, "Bid", MaxN).levels # << >>

\* Every update the driver may send.
AllUpdates ==
    {SetUpdate(price, quantity, side) :
         price \in Prices, quantity \in UpdateQuantities, side \in Sides}
        \cup {RemoveUpdate(price, side) : price \in Prices, side \in Sides}
CachedBest(side) == IF side = "Bid" THEN best_bid ELSE best_ask
LevelAt(self, price, side) ==
    IF side = "Bid" THEN self.bids[price] ELSE self.asks[price]

\* C16: taking away an occupied level whose price is not the cached best of
\* its side leaves that cached best as it is and reads no bitset block; an
\* update reads bitset blocks only when it drives the level at the cached
\* best of its side to zero.
C16_ScanOnlyOnRemovalOfBest ==
    /\ \A price \in Prices, side \in Sides :
          (LevelAt(Self, price, side) > 0 /\ price # CachedBest(side)) =>
              \A u \in Removals(price, side) :
                  \A after \in {apply_update(Self, u)} :
                      /\ after.best_bid = best_bid
                      /\ after.best_ask = best_ask
                      /\ after.scanned = << >>
    /\ \A u \in AllUpdates :
          \A after \in {apply_update(Self, u)} :
              after.scanned # << >> =>
                  /\ u.price = CachedBest(u.side)
                  /\ LevelAt(Self, u.price, u.side) > 0
                  /\ LevelAt(after, u.price, u.side) = 0

\* An ask side with two levels: removing the one that is not the best reads
\* no block, removing the best reads one.
C16_Witness ==
    \E price \in OccupiedAsks :
        /\ price # best_ask
        /\ apply_update(Self, RemoveUpdate(price, "Ask")).scanned = << >>
        /\ apply_update(Self, RemoveUpdate(price, "Ask")).best_ask = best_ask
        /\ apply_update(Self, RemoveUpdate(price, "Ask")).asks[price] = 0
        /\ apply_update(Self, RemoveUpdate(best_ask, "Ask")).scanned # << >>

\* The bitset block b of a side.
BlockMask(self, side, b) ==
    IF side = "Bid" THEN self.bitmask_bid[b] ELSE self.bitmask_ask[b]

\* C17: the scan that recomputes a best price reads at most NUM_BLOCKS blocks,
\* each at most once, all with an index in [0, NUM_BLOCKS); it starts at the
\* block of the removed price and walks block by block, downward for bid and
\* upward for ask; and the best becomes empty exactly when the walk has
\* reached the end of the domain having found every block it read empty.
C17_ScanIsBounded ==
    \A side \in Sides :
        CachedBest(side) >= 0 =>
            \A u \in Removals(CachedBest(side), side) :
                \A after \in {apply_update(Self, u)} :
                    LET sc == after.scanned
                        step == IF side = "Bid" THEN -1 ELSE 1
                        boundary == IF side = "Bid" THEN 0 ELSE NUM_BLOCKS - 1
                        best == IF side = "Bid" THEN after.best_bid
                                                ELSE after.best_ask
                    IN /\ Len(sc) >= 1 /\ Len(sc) <= NUM_BLOCKS
                       /\ \A i \in 1 .. Len(sc) : sc[i] \in Blocks
                       /\ \A i, j \in 1 .. Len(sc) : i # j => sc[i] # sc[j]
                       /\ sc[1] = BlockOf(CachedBest(side))
                       /\ \A i \in 1 .. (Len(sc) - 1) : sc[i + 1] = sc[i] + step
                       /\ \A i \in 1 .. (Len(sc) - 1) :
                             BlockMask(after, side, sc[i]) = 0
                       /\ (best = -1) <=>
                              /\ sc[Len(sc)] = boundary
                              /\ BlockMask(after, side, boundary) = 0
                       /\ best # -1 => BlockOf(best) = sc[Len(sc)]

\* The only bid sits in the last block, so removing it reads every block down
\* to block 0 and leaves the side empty; removing the best ask reads two
\* blocks and stops at a level.
C17_Witness ==
    /\ best_bid >= 0 /\ BlockOf(best_bid) = NUM_BLOCKS - 1
    /\ LET after == apply_update(Self, RemoveUpdate(best_bid, "Bid"))
       IN Len(after.scanned) = NUM_BLOCKS /\ after.best_bid = -1
    /\ best_ask >= 0
    /\ LET after == apply_update(Self, RemoveUpdate(best_ask, "Ask"))
       IN Len(after.scanned) = 2 /\ after.best_ask >= 0

\* The level array and the cached total of a side.
LevelsOf(self, side) == IF side = "Bid" THEN self.bids ELSE self.asks
TotalOf(self, side) ==
    IF side = "Bid" THEN self.total_bid_quantity ELSE self.total_ask_quantity

\* C18: a Set with quantity > 0 leaves the total at old total - old level
\* quantity + new quantity, and neither the signed difference nor the signed
\* sum leaves the signed range, for every quantity and total for which the
\* levels of the side afterwards sum to a value that fits the unsigned width.
C18_SetTotalWithoutSignedOverflow ==
    \A side \in Sides, price \in Prices, quantity \in Quantity \ {0} :
        \A after \in {apply_update(Self, SetUpdate(price, quantity, side))} :
            SumOfLevels(LevelsOf(after, side)) < QMod =>
                /\ TotalOf(after, side)
                       = TotalOf(Self, side) - LevelAt(Self, price, side) + quantity
                /\ ~after.i64_overflow

\* The occupied prices and the best-price answer of a side.
OccupiedOf(side) == IF side = "Bid" THEN OccupiedBids ELSE OccupiedAsks
BestOf(self, side) ==
    IF side = "Bid" THEN get_best_bid(self) ELSE get_best_ask(self)
TopLevelsEmpty(side) ==
    \A n \in TopLevelCounts \ {0} :
        get_top_levels(Self, side, n) = Returned(<< >>)

\* C19: in every reachable state a side has no occupied level iff its best
\* price is None iff its total quantity is 0 iff get_top_levels returns the
\* empty sequence for every n >= 1; no query on an empty side fails.
C19_EmptinessConsistent ==
    \A side \in Sides :
        /\ (OccupiedOf(side) = {}) <=> (BestOf(Self, side) = None)
        /\ (OccupiedOf(side) = {}) <=> (get_total_quantity(Self, side) = 0)
        /\ (OccupiedOf(side) = {}) <=> TopLevelsEmpty(side)

\* The state a book keeps for one side.
BidState(self) ==
    << self.bids, self.bitmask_bid, self.best_bid, self.total_bid_quantity >>
AskState(self) ==
    << self.asks, self.bitmask_ask, self.best_ask, self.total_ask_quantity >>

\* C20: from every reachable book, any apply_update with side Bid leaves the
\* ask levels, the ask bitset, the cached best ask and the ask total as they
\* were, and any with side Ask leaves the bid levels, bitset, cached best and
\* total as they were; whatever the price, and wherever an access outside an
\* array lands.
C20_SidesAreIndependent ==
    \A price \in Prices \cup OutOfRangePrices, quantity \in UpdateQuantities,
       side \in Sides, level_place \in Places, block_place \in Places :
        \A u \in {SetUpdate(price, quantity, side), RemoveUpdate(price, side)} :
            \A after \in {apply_update(BookAt(0, level_place, block_place), u)} :
                /\ u.side = "Bid" => AskState(after) = AskState(Self)
                /\ u.side = "Ask" => BidState(after) = BidState(Self)

\* The books of the scenario: a new book after Set{100, 10, Bid} and
\* Set{105, 5, Ask}, and that book after Remove{100, Bid}.
AfterScenario1 ==
    apply_update(apply_update(new, SetUpdate(100, 10, "Bid")),
                 SetUpdate(105, 5, "Ask"))
AfterScenario2 == apply_update(AfterScenario1, RemoveUpdate(100, "Bid"))

\* C15: on a new book, Set{price 100, quantity 10, Bid} then Set{price 105,
\* quantity 5, Ask} give best bid 100, best ask 105, spread 5, bid total 10,
\* ask total 5 and top bid levels (n = 1) [(100, 10)]; Remove{price 100, Bid}
\* after them gives no best bid, no spread and bid total 0.
C15_Scenario ==
    Self = new =>
        /\ \A s \in {AfterScenario1} :
              /\ get_best_bid(s) = Some(100)
              /\ get_best_ask(s) = Some(105)
              /\ get_spread(s) = Some(5)
              /\ get_total_quantity(s, "Bid") = 10
              /\ get_total_quantity(s, "Ask") = 5
              /\ get_top_levels(s, "Bid", 1) = Returned(<< << 100, 10 >> >>)
        /\ \A s \in {AfterScenario2} :
              /\ get_best_bid(s) = None
              /\ get_spread(s) = None
              /\ get_total_quantity(s, "Bid") = 0

\* The two updates of the scenario have been applied to the book, which
\* holds one bid of 10 at 100 and one ask of 5 at 105.
C15_Witness ==
    /\ build = "scenario"
    /\ last_call = "apply_update"
    /\ Fields(Self) = Fields(AfterScenario1)
    /\ bids[100] = 10 /\ asks[105] = 5
    /\ Fields(apply_update(Self, RemoveUpdate(100, "Bid"))) = Fields(AfterScenario2)

\* The best price of a non-empty side as the levels give it.
BestOccupied(side) ==
    IF side = "Bid" THEN SetMax(OccupiedBids) ELSE SetMin(OccupiedAsks)

\* C21: for every n >= 1 on a side with an occupied level, get_top_levels
\* returns exactly min(n, number of occupied levels of the side) entries; the
\* first is the best price with its quantity; every entry is an occupied level
\* and no occupied level between the best price and the last entry is left
\* out; and the quantity of each entry is what get_quantity_at gives at its
\* price.
C21_TopLevelsCompleteFromBest ==
    \A side \in Sides, n \in TopLevelCounts \ {0} :
        OccupiedOf(side) # {} =>
            \A res \in {get_top_levels(Self, side, n)} :
                /\ res.outcome = "returned"
                /\ \A r \in {res.levels} :
                      /\ Len(r) = Min(n, Cardinality(OccupiedOf(side)))
                      /\ r[1] = << BestOccupied(side),
                                   LevelsOf(Self, side)[BestOccupied(side)] >>
                      /\ r[1][1] = CachedBest(side)
                      /\ \A i \in 1 .. Len(r) : r[i][1] \in OccupiedOf(side)
                      /\ \A p \in OccupiedOf(side) :
                            (IF side = "Bid" THEN p >= r[Len(r)][1]
                                             ELSE p <= r[Len(r)][1])
                                => \E i \in 1 .. Len(r) : r[i][1] = p
                      /\ \A i \in 1 .. Len(r) :
                            get_quantity_at(Self, r[i][1], side) = Some(r[i][2])

=============================================================================
